---- MODULE Spec2Model ----
(***************************************************************************)
(* mpags-cipher: main() of src/mpags-cipher.cpp as a state machine.  The   *)
(* invoking context (main) builds a cipher, and for the Caesar cipher      *)
(* splits inputText over numThreads std::async tasks, polls each future    *)
(* with wait_for and concatenates the results; the other ciphers are       *)
(* applied in one call.  The cipher classes and the factory are declared   *)
(* by headers of the repository whose bodies are not in src/; they are     *)
(* modelled from sections 4.3-4.6 of the specification.                    *)
(***************************************************************************)
EXTENDS Integers, Sequences, FiniteSets

VARIABLES
  pc,          \* position of main(): the statement it executes next
  settings,    \* ProgramSettings settings  (mpags-cipher.cpp:25)
  inputText,   \* std::string inputText     (mpags-cipher.cpp:81)
  cipher,      \* std::unique_ptr<Cipher>   (mpags-cipher.cpp:109)
  outputText,  \* std::string outputText    (mpags-cipher.cpp:124)
  futures,     \* std::vector<std::future<std::string>> with each task's state
  elem,        \* index of the future the collecting loop is at (1-based)
  status,      \* std::future_status status (mpags-cipher.cpp:146)
  stdout,      \* what has been written to std::cout, in order
  stderr,      \* what has been written to std::cerr, in order
  outFile,     \* what has been written to the output file, in order
  exitCode,    \* value returned by main(), -1 while it has not returned
  built,       \* history: how the call of cipherFactory ended
  applyCalls,  \* history: number of applyCipher calls per context (0 = main)
  overtaken    \* history: some task completed before a task of lower index

vars == << pc, settings, inputText, cipher, outputText, futures, elem, status,
           stdout, stderr, outFile, exitCode, built, applyCalls, overtaken >>

----------------------------------------------------------------------------
(* Bounds of the model *)

\* longest input text read
MaxLen == 7

\* most wait_for polls that time out in one run
MaxTimeouts == 2

----------------------------------------------------------------------------
(* Characters and texts *)

Alphabet ==
  << "A", "B", "C", "D", "E", "F", "G", "H", "I", "J", "K", "L", "M",
     "N", "O", "P", "Q", "R", "S", "T", "U", "V", "W", "X", "Y", "Z" >>

alphabetSize == Len(Alphabet)

Digits == << "0", "1", "2", "3", "4", "5", "6", "7", "8", "9" >>

Range(s) == { s[i] : i \in DOMAIN s }

IsLetter(c) == c \in Range(Alphabet)

IsDigit(c) == c \in Range(Digits)

\* 0-based position of a letter in the alphabet
LetterIndex(c) == (CHOOSE i \in DOMAIN Alphabet : Alphabet[i] = c) - 1

DigitValue(c) == (CHOOSE i \in DOMAIN Digits : Digits[i] = c) - 1

IndexLetter(i) == Alphabet[(i % alphabetSize) + 1]

RECURSIVE Concat(_)
\* the concatenation of a sequence of strings, first to last
Concat(ss) == IF ss = << >> THEN << >> ELSE Head(ss) \o Concat(Tail(ss))

Min(a, b) == IF a < b THEN a ELSE b

\* std::string::substr(pos, n) raises std::out_of_range when pos > size()
SubstrThrows(s, pos) == pos > Len(s)

\* std::string::substr(pos, n): the characters [pos, min(pos + n, size()))
Substr(s, pos, n) == SubSeq(s, pos + 1, Min(pos + n, Len(s)))

----------------------------------------------------------------------------
(* The cipher classes: Cipher::applyCipher is declared in Cipher.hpp, the   *)
(* three implementations and cipherFactory follow the specification.        *)

CipherModes == { "Encrypt", "Decrypt" }

CipherTypes == { "Caesar", "Playfair", "Vigenere" }

\* the letters of a raw key string, in order
KeyLetters(key) == SelectSeq(key, IsLetter)

\* Caesar (4.3): the key string parses entirely as an integer
IsInteger(key) ==
  /\ key # << >>
  /\ \/ \A i \in DOMAIN key : IsDigit(key[i])
     \/ /\ Len(key) > 1
        /\ key[1] = "-"
        /\ \A i \in 2..Len(key) : IsDigit(key[i])

RECURSIVE ParseDigits(_, _)
ParseDigits(ds, acc) ==
  IF ds = << >> THEN acc
  ELSE ParseDigits(Tail(ds), 10 * acc + DigitValue(Head(ds)))

ParseInt(key) ==
  IF key[1] = "-" THEN 0 - ParseDigits(Tail(key), 0) ELSE ParseDigits(key, 0)

\* Caesar (4.3): the shift reduced modulo 26, negated first on decryption
CaesarShift(key, mode) ==
  IF mode = "Encrypt" THEN ParseInt(key) % alphabetSize
  ELSE (0 - ParseInt(key)) % alphabetSize

\* Caesar (4.3): every letter moved by the shift, independently of the others
CaesarApply(key, text, mode) ==
  [ i \in 1..Len(text) |->
      IndexLetter(LetterIndex(text[i]) + CaesarShift(key, mode)) ]

\* Vigenere (4.5): the key has at least one letter after filtering
VigenereValidKey(key) == KeyLetters(key) # << >>

\* Vigenere (4.5): key letter i mod |key| added to (subtracted from) letter i
VigenereApply(key, text, mode) ==
  LET k == KeyLetters(key)
      shift(i) == LetterIndex(k[((i - 1) % Len(k)) + 1])
  IN  [ i \in 1..Len(text) |->
          IF mode = "Encrypt"
          THEN IndexLetter(LetterIndex(text[i]) + shift(i))
          ELSE IndexLetter(LetterIndex(text[i]) + alphabetSize - shift(i)) ]

\* Playfair (4.4): I and J share a cell of the square
MergeIJ(c) == IF c = "J" THEN "I" ELSE c

RECURSIVE Dedupe(_, _)
\* the first occurrences of s that are not in seen, in order
Dedupe(s, seen) ==
  IF s = << >> THEN << >>
  ELSE IF Head(s) \in seen THEN Dedupe(Tail(s), seen)
  ELSE << Head(s) >> \o Dedupe(Tail(s), seen \cup { Head(s) })

PlayfairKeyLetters(key) ==
  Dedupe([ i \in DOMAIN KeyLetters(key) |-> MergeIJ(KeyLetters(key)[i]) ], { })

\* Playfair (4.4): a key with no usable letter is rejected
PlayfairValidKey(key) == PlayfairKeyLetters(key) # << >>

\* Playfair (4.4): key letters, then the rest of the alphabet, 25 cells
PlayfairSquare(key) ==
  Dedupe(PlayfairKeyLetters(key) \o [ i \in DOMAIN Alphabet |-> MergeIJ(Alphabet[i]) ],
         { })

squareSide == 5

Filler(c) == IF c = "X" THEN "Q" ELSE "X"

RECURSIVE Digraphs(_)
\* Playfair (4.4): a filler splits a double letter and completes an odd end
Digraphs(text) ==
  IF text = << >> THEN << >>
  ELSE IF Len(text) = 1 THEN << text[1], Filler(text[1]) >>
  ELSE IF text[1] = text[2]
       THEN << text[1], Filler(text[1]) >> \o Digraphs(Tail(text))
       ELSE << text[1], text[2] >> \o Digraphs(Tail(Tail(text)))

\* Playfair (4.4): the substitution of one pair of letters
PlayfairPair(sq, a, b, mode) ==
  LET cell(c) == (CHOOSE i \in DOMAIN sq : sq[i] = c) - 1
      row(c) == cell(c) \div squareSide
      col(c) == cell(c) % squareSide
      at(r, c) == sq[r * squareSide + c + 1]
      step == IF mode = "Encrypt" THEN 1 ELSE squareSide - 1
  IN  IF row(a) = row(b)
      THEN << at(row(a), (col(a) + step) % squareSide),
              at(row(b), (col(b) + step) % squareSide) >>
      ELSE IF col(a) = col(b)
      THEN << at((row(a) + step) % squareSide, col(a)),
              at((row(b) + step) % squareSide, col(b)) >>
      ELSE << at(row(a), col(b)), at(row(b), col(a)) >>

RECURSIVE PlayfairPairs(_, _, _)
\* pairs taken as they come; a last letter without partner is left as it is
PlayfairPairs(sq, text, mode) ==
  IF Len(text) < 2 THEN text
  ELSE PlayfairPair(sq, text[1], text[2], mode)
         \o PlayfairPairs(sq, Tail(Tail(text)), mode)

\* Playfair (4.4): digraph preparation on encryption only; the square and
\* the prepared text are built once and then used for every pair
PlayfairApply(key, text, mode) ==
  LET merged == [ i \in DOMAIN text |-> MergeIJ(text[i]) ]
  IN  CHOOSE out \in
        { PlayfairPairs(sq, prepared, mode) :
            sq \in { PlayfairSquare(key) },
            prepared \in { IF mode = "Encrypt" THEN Digraphs(merged) ELSE merged } } :
        TRUE

\* the key validation each cipher's constructor performs (4.3-4.5, 7)
ValidKey(type, key) ==
  CASE type = "Caesar" -> IsInteger(key)
    [] type = "Playfair" -> PlayfairValidKey(key)
    [] type = "Vigenere" -> VigenereValidKey(key)

\* an empty std::unique_ptr<Cipher>
NullCipher == [ type |-> "none", key |-> << >> ]

\* cipherFactory(type, key) raises InvalidKey (4.6, 7: invalid key)
cipherFactoryThrows(type, key) == ~ValidKey(type, key)

\* cipherFactory(type, key): what it can return when it does not raise, the
\* instance or no instance (7: construction failure, unexpected)
cipherFactory(type, key) ==
  IF ValidKey(type, key)
  THEN { [ type |-> type, key |-> key ], NullCipher }
  ELSE { }

\* cipher->applyCipher(text, mode): virtual dispatch on the cipher's class
applyCipher(c, text, mode) ==
  CASE c.type = "Caesar" -> CaesarApply(c.key, text, mode)
    [] c.type = "Playfair" -> PlayfairApply(c.key, text, mode)
    [] c.type = "Vigenere" -> VigenereApply(c.key, text, mode)

----------------------------------------------------------------------------
(* Inputs of a run *)

\* raw key strings given with -k
Keys == { << "3" >>, << "2", "9" >>, << "B" >> }

\* texts the input is cut from; what is read has passed transformChar
SampleTexts ==
  { << "H", "E", "L", "L", "O", "W", "O", "R", "L", "D" >>,
    << "Z", "A", "Y", "B", "X", "C", "Q", "J", "K", "V" >> }

Texts == { SubSeq(t, 1, n) : t \in SampleTexts, n \in 0..MaxLen }

\* ProgramSettings as processCommandLine can leave it
SettingsSet ==
  [ helpRequested : BOOLEAN, versionRequested : BOOLEAN,
    inputFile : { "", "in.txt" }, outputFile : { "", "out.txt" },
    cipherKey : Keys, cipherMode : CipherModes, cipherType : CipherTypes ]

\* settings { false, false, "", "", "", CipherMode::Encrypt, CipherType::Caesar }
DefaultSettings ==
  [ helpRequested |-> FALSE, versionRequested |-> FALSE,
    inputFile |-> "", outputFile |-> "",
    cipherKey |-> << >>, cipherMode |-> "Encrypt", cipherType |-> "Caesar" ]

----------------------------------------------------------------------------
(* The Caesar dispatch *)

numThreads == 4

\* the contexts of a run: 0 is main, 1..numThreads are the tasks
Contexts == 0..numThreads

\* a loop test that lets i reach numThreads
LaunchLoopTestInclusive(i) == i <= numThreads

\* the test of the launching loop: i < numThreads
LaunchLoopTest(i) == i < numThreads

\* the start of a range without the division by numThreads
RangeFirstNoDivide(i, inputLength) == i * inputLength

\* first argument of fn for task i (0-based): i*inputLength/numThreads, in
\* size_t, left to right; the product of i < 4 and the length of a string
\* stays below 2^64, so it is the exact quotient
RangeFirst(i, inputLength) == (i * inputLength) \div numThreads

\* second argument of fn for task i (0-based)
RangeLen(i, inputLength) ==
  IF i # numThreads - 1
  THEN inputLength \div numThreads
  ELSE (inputLength \div numThreads) + (inputLength % numThreads)

\* std::async(fn, ...) without a policy: launch::async | launch::deferred,
\* the implementation picks one for each call
LaunchPolicies == { "async", "deferred" }

\* the shared state of a future holds a value or an exception
IsReady(f) == f.state \in { "ready", "exception" }

\* elem.wait_for(10 s): deferred for a deferred task that was not started,
\* ready once the shared state is, timeout for a task that still runs
wait_for(f) ==
  IF f.state = "deferred" THEN "deferred"
  ELSE IF IsReady(f) THEN "ready"
  ELSE "timeout"

\* a loop that is left on any status but deferred
LoopWhileDeferred(s) == s = "deferred"

\* while (status != std::future_status::ready)
LoopAgain(s) == s # "ready"

\* the result put in front of what was collected
PrependResult(out, r) == r \o out

\* outputText += elem.get()
AppendResult(out, r) == out \o r

\* number of "waiting... " lines written so far
Timeouts == Cardinality({ i \in DOMAIN stdout : stdout[i] = "waiting... \n" })

----------------------------------------------------------------------------
(* main() *)

Init ==
  /\ pc = "processCommandLine"
  /\ settings = DefaultSettings
  /\ inputText = << >>
  /\ cipher = NullCipher
  /\ outputText = << >>
  /\ futures = << >>
  /\ elem = 1
  /\ status = "unset"
  /\ stdout = << >>
  /\ stderr = << >>
  /\ outFile = << >>
  /\ exitCode = -1
  /\ built = "no"
  /\ applyCalls = [ c \in Contexts |-> 0 ]
  /\ overtaken = FALSE

\* return code; from main
Return(code) ==
  /\ pc' = "done"
  /\ exitCode' = code

\* processCommandLine(cmdLineArgs, settings) returns
ProcessCommandLine ==
  /\ pc = "processCommandLine"
  /\ settings' \in SettingsSet
  /\ pc' = "options"
  /\ UNCHANGED << inputText, cipher, outputText, futures, elem, status, stdout,
                  stderr, outFile, exitCode, built, applyCalls, overtaken >>

\* processCommandLine raises MissingArgument or UnknownArgument
CommandLineError ==
  /\ pc = "processCommandLine"
  /\ \E what \in { "[error] Missing argument", "[error] Unknown argument" } :
       stderr' = Append(stderr, what)
  /\ Return(1)
  /\ UNCHANGED << settings, inputText, cipher, outputText, futures, elem,
                  status, stdout, outFile, built, applyCalls, overtaken >>

\* if (settings.helpRequested): the usage text, return 0
Help ==
  /\ pc = "options"
  /\ settings.helpRequested
  /\ stdout' = Append(stdout, "Usage: mpags-cipher ...")
  /\ Return(0)
  /\ UNCHANGED << settings, inputText, cipher, outputText, futures, elem,
                  status, stderr, outFile, built, applyCalls, overtaken >>

\* if (settings.versionRequested): the version, return 0
Version ==
  /\ pc = "options"
  /\ ~settings.helpRequested
  /\ settings.versionRequested
  /\ stdout' = stdout \o << "0.5.0", "\n" >>
  /\ Return(0)
  /\ UNCHANGED << settings, inputText, cipher, outputText, futures, elem,
                  status, stderr, outFile, built, applyCalls, overtaken >>

\* the input file cannot be read: return 1
OpenInputFails ==
  /\ pc = "options"
  /\ ~settings.helpRequested
  /\ ~settings.versionRequested
  /\ settings.inputFile # ""
  /\ stderr' = Append(stderr, "[error] failed to create istream on file")
  /\ Return(1)
  /\ UNCHANGED << settings, inputText, cipher, outputText, futures, elem,
                  status, stdout, outFile, built, applyCalls, overtaken >>

\* the reading loops: inputText is the transformed input, from file or stdin
ReadInput ==
  /\ pc = "options"
  /\ ~settings.helpRequested
  /\ ~settings.versionRequested
  /\ inputText' \in Texts
  /\ pc' = "construct"
  /\ UNCHANGED << settings, cipher, outputText, futures, elem, status, stdout,
                  stderr, outFile, exitCode, built, applyCalls, overtaken >>

\* catch (const InvalidKey& e): the message on std::cerr, return 1
CipherFactoryThrows ==
  /\ pc = "construct"
  /\ cipherFactoryThrows(settings.cipherType, settings.cipherKey)
  /\ built' = "InvalidKey"
  /\ stderr' = Append(stderr, "[error] Invalid key")
  /\ Return(1)
  /\ UNCHANGED << settings, inputText, cipher, outputText, futures, elem,
                  status, stdout, outFile, applyCalls, overtaken >>

\* cipher = cipherFactory( settings.cipherType, settings.cipherKey )
CipherFactoryReturns ==
  /\ pc = "construct"
  /\ \E c \in cipherFactory(settings.cipherType, settings.cipherKey) :
       /\ cipher' = c
       /\ built' = IF c = NullCipher THEN "null" ELSE "instance"
  /\ pc' = "check"
  /\ UNCHANGED << settings, inputText, outputText, futures, elem, status,
                  stdout, stderr, outFile, exitCode, applyCalls, overtaken >>

\* the message on std::cerr without the return that follows it
CheckCipherFallsThrough ==
  /\ pc = "check"
  /\ cipher = NullCipher
  /\ stderr' = Append(stderr, "[error] problem constructing requested cipher")
  /\ pc' = IF settings.cipherType = "Caesar" THEN "launch" ELSE "apply"
  /\ UNCHANGED << settings, inputText, cipher, outputText, futures, elem,
                  status, stdout, outFile, exitCode, built, applyCalls,
                  overtaken >>

\* if ( ! cipher ): the message on std::cerr, return 1
CheckCipherFails ==
  /\ pc = "check"
  /\ cipher = NullCipher
  /\ stderr' = Append(stderr, "[error] problem constructing requested cipher")
  /\ Return(1)
  /\ UNCHANGED << settings, inputText, cipher, outputText, futures, elem,
                  status, stdout, outFile, built, applyCalls, overtaken >>

\* std::string outputText{""}; if( settings.cipherType == CipherType::Caesar)
Dispatch ==
  /\ pc = "check"
  /\ cipher # NullCipher
  /\ outputText' = << >>
  /\ pc' = IF settings.cipherType = "Caesar" THEN "launch" ELSE "apply"
  /\ UNCHANGED << settings, inputText, cipher, futures, elem, status, stdout,
                  stderr, outFile, exitCode, built, applyCalls, overtaken >>

\* one turn of the launching loop: futures.push_back( std::async(fn, ...) )
LaunchTask ==
  /\ pc = "launch"
  /\ LET i == Len(futures)
         inputLength == Len(inputText)
     IN  /\ LaunchLoopTest(i)
         /\ \E policy \in LaunchPolicies :
              futures' = Append(futures,
                [ first |-> RangeFirst(i, inputLength),
                  len |-> RangeLen(i, inputLength),
                  state |-> IF policy = "async" THEN "running" ELSE "deferred",
                  result |-> << >> ])
         /\ pc' = IF LaunchLoopTest(i + 1) THEN "launch" ELSE "wait"
  /\ UNCHANGED << settings, inputText, cipher, outputText, elem, status,
                  stdout, stderr, outFile, exitCode, built, applyCalls,
                  overtaken >>

\* a task that appends its result to outputText itself
RunTaskSharedOutput(k) ==
  /\ k \in DOMAIN futures
  /\ futures[k].state = "running"
  /\ LET r == applyCipher(cipher,
                          Substr(inputText, futures[k].first, futures[k].len),
                          settings.cipherMode)
     IN  /\ futures' = [ futures EXCEPT ![k].state = "ready", ![k].result = r ]
         /\ outputText' = outputText \o r
  /\ applyCalls' = [ applyCalls EXCEPT ![k] = @ + 1 ]
  /\ overtaken' = (overtaken \/ \E j \in 1..(k - 1) : ~IsReady(futures[j]))
  /\ UNCHANGED << pc, settings, inputText, cipher, elem, status, stdout,
                  stderr, outFile, exitCode, built >>

\* task k runs fn(first, len) on its own thread and makes its future ready:
\* cipher->applyCipher( inputText.substr(first, len), settings.cipherMode)
RunTask(k) ==
  /\ k \in DOMAIN futures
  /\ futures[k].state = "running"
  /\ LET f == futures[k]
     IN  IF SubstrThrows(inputText, f.first)
         THEN /\ futures' = [ futures EXCEPT ![k].state = "exception" ]
              /\ UNCHANGED applyCalls
         ELSE /\ futures' =
                   [ futures EXCEPT
                       ![k].state = "ready",
                       ![k].result =
                         applyCipher(cipher, Substr(inputText, f.first, f.len),
                                     settings.cipherMode) ]
              /\ applyCalls' = [ applyCalls EXCEPT ![k] = @ + 1 ]
  /\ overtaken' = (overtaken \/ \E j \in 1..(k - 1) : ~IsReady(futures[j]))
  /\ UNCHANGED << pc, settings, inputText, cipher, outputText, elem, status,
                  stdout, stderr, outFile, exitCode, built >>

\* one turn of the do/while loop: status = elem.wait_for(10 s), the message
\* on a timeout, and the test of the loop
WaitFor ==
  /\ pc = "wait"
  /\ status' = wait_for(futures[elem])
  /\ status' = "timeout" => Timeouts < MaxTimeouts
  /\ stdout' = IF status' = "timeout" THEN Append(stdout, "waiting... \n")
               ELSE stdout
  /\ pc' = IF LoopAgain(status') THEN "wait" ELSE "get"
  /\ UNCHANGED << settings, inputText, cipher, outputText, futures, elem,
                  stderr, outFile, exitCode, built, applyCalls, overtaken >>

\* outputText += elem.get(), then the next future; get() waits for the
\* shared state and rethrows a stored exception, which nothing catches
Get ==
  /\ pc = "get"
  /\ IsReady(futures[elem])
  /\ IF futures[elem].state = "exception"
     THEN /\ pc' = "terminated"
          /\ UNCHANGED << outputText, elem, status >>
     ELSE /\ outputText' = AppendResult(outputText, futures[elem].result)
          /\ elem' = IF elem < Len(futures) THEN elem + 1 ELSE elem
          /\ status' = "unset"
          /\ pc' = IF elem < Len(futures) THEN "wait" ELSE "output"
  /\ UNCHANGED << settings, inputText, cipher, futures, stdout, stderr,
                  outFile, exitCode, built, applyCalls, overtaken >>

\* outputText = cipher->applyCipher( inputText, settings.cipherMode )
ApplySequential ==
  /\ pc = "apply"
  /\ outputText' = applyCipher(cipher, inputText, settings.cipherMode)
  /\ applyCalls' = [ applyCalls EXCEPT ![0] = @ + 1 ]
  /\ pc' = "output"
  /\ UNCHANGED << settings, inputText, cipher, futures, elem, status, stdout,
                  stderr, outFile, exitCode, built, overtaken >>

\* the output file cannot be written: return 1
OpenOutputFails ==
  /\ pc = "output"
  /\ settings.outputFile # ""
  /\ stderr' = Append(stderr, "[error] failed to create ostream on file")
  /\ Return(1)
  /\ UNCHANGED << settings, inputText, cipher, outputText, futures, elem,
                  status, stdout, outFile, built, applyCalls, overtaken >>

\* outputStream << outputText << std::endl; return 0
WriteFile ==
  /\ pc = "output"
  /\ settings.outputFile # ""
  /\ outFile' = outFile \o outputText \o << "\n" >>
  /\ Return(0)
  /\ UNCHANGED << settings, inputText, cipher, outputText, futures, elem,
                  status, stdout, stderr, built, applyCalls, overtaken >>

\* std::cout << outputText << std::endl; return 0
WriteStdout ==
  /\ pc = "output"
  /\ settings.outputFile = ""
  /\ stdout' = stdout \o outputText \o << "\n" >>
  /\ Return(0)
  /\ UNCHANGED << settings, inputText, cipher, outputText, futures, elem,
                  status, stderr, outFile, built, applyCalls, overtaken >>

\* the steps of the invoking context
MainStep ==
  \/ ProcessCommandLine
  \/ CommandLineError
  \/ Help
  \/ Version
  \/ OpenInputFails
  \/ ReadInput
  \/ CipherFactoryThrows
  \/ CipherFactoryReturns
  \/ CheckCipherFails
  \/ Dispatch
  \/ LaunchTask
  \/ WaitFor
  \/ Get
  \/ ApplySequential
  \/ OpenOutputFails
  \/ WriteFile
  \/ WriteStdout

Next ==
  \/ MainStep
  \/ \E k \in 1..numThreads : RunTask(k)

Spec == Init /\ [][Next]_vars

\* every thread that can take a step is scheduled
FairSpec ==
  /\ Spec
  /\ WF_vars(MainStep)
  /\ \A k \in 1..numThreads : WF_vars(RunTask(k))

----------------------------------------------------------------------------
(* Properties *)

\* the cipher was built and main is past the launching loop or the single call
Dispatched == built = "instance" /\ pc \notin { "check", "launch", "apply" }

CaesarRun == settings.cipherType = "Caesar"

AllLaunched == CaesarRun /\ Len(futures) = 4

\* the substring task k is handed
TaskInput(k) == Substr(inputText, futures[k].first, futures[k].len)

\* C1: the 4 substrings handed to the tasks are contiguous, do not overlap
\* and, concatenated in index order, are the input text: no character is
\* duplicated or dropped.
C1_RangesReconstructInput ==
  AllLaunched =>
    /\ futures[1].first = 0
    /\ \A k \in 1..3 : futures[k + 1].first = futures[k].first + Len(TaskInput(k))
    /\ Concat([ k \in 1..4 |-> TaskInput(k) ]) = inputText

\* C2: the outputText the Caesar branch builds equals one sequential
\* applyCipher(inputText, mode) call on the whole text.
C2_ParallelEqualsSequential ==
  (CaesarRun /\ Dispatched /\ pc = "output") =>
    outputText = applyCipher(cipher, inputText, settings.cipherMode)

\* C3: whatever the completion order of the tasks, the final outputText is
\* result(0), result(1), result(2), result(3) in that order, each once; while
\* collecting, outputText is the results of the futures already passed.
C3_CollectedInIndexOrder ==
  /\ (CaesarRun /\ pc \in { "wait", "get" }) =>
       outputText = Concat([ k \in 1..(elem - 1) |-> futures[k].result ])
  /\ (CaesarRun /\ Dispatched /\ pc \in { "output", "done" }) =>
       outputText = futures[1].result \o futures[2].result
                      \o futures[3].result \o futures[4].result

\* a finished Caesar run in which a task completed before one of lower index
\* and every task produced a different, non-empty result
C3_Witness ==
  /\ CaesarRun /\ pc = "done" /\ exitCode = 0
  /\ overtaken
  /\ \A j, k \in 1..4 : j # k => futures[j].result # futures[k].result
  /\ \A k \in 1..4 : futures[k].result # << >>

\* C4: when the construction of the cipher fails (InvalidKey, or no
\* instance), applyCipher is never called, no task is launched, nothing is
\* written to the output file or to standard output, the failure is on the
\* error stream and main returns 1.
C4_ConstructionFailureIsFatal ==
  built \in { "InvalidKey", "null" } =>
    /\ \A c \in Contexts : applyCalls[c] = 0
    /\ futures = << >>
    /\ stdout = << >>
    /\ outFile = << >>
    /\ pc \in { "check", "done" }
    /\ pc = "done" => (exitCode = 1 /\ stderr # << >>)

\* main returned after the factory gave no instance for a non-empty input
C4_Witness ==
  /\ built = "null" /\ pc = "done" /\ exitCode = 1
  /\ inputText # << >>
  /\ stderr = << "[error] problem constructing requested cipher" >>

\* C5: a poll that times out never abandons the wait: the result of a task
\* is retrieved only when the task has completed, the loop is at a future
\* only when every earlier task has completed, and the output step is
\* reached only when all tasks have; a task that runs is never cancelled.
C5_TimeoutKeepsWaiting ==
  /\ pc = "get" => IsReady(futures[elem])
  /\ (CaesarRun /\ pc \in { "wait", "get" }) =>
       \A k \in 1..(elem - 1) : IsReady(futures[k])
  /\ (CaesarRun /\ Dispatched /\ pc \in { "output", "done" }) =>
       \A k \in DOMAIN futures : IsReady(futures[k])
  /\ (status = "timeout" /\ pc = "wait") =>
       futures[elem].state \in { "running", "ready" }

\* the output step is reached after more than one poll timed out
C5_Witness == CaesarRun /\ pc = "output" /\ Timeouts > 1 /\ Len(futures) = 4

\* C6: a Caesar run creates exactly 4 tasks whatever the input length and
\* makes no applyCipher call on main; a Playfair or Vigenere run creates no
\* task and makes exactly one applyCipher call, on main.
C6_TaskCountFixedByType ==
  Dispatched =>
    IF CaesarRun
    THEN Len(futures) = 4 /\ applyCalls[0] = 0
    ELSE /\ futures = << >>
         /\ applyCalls[0] = 1
         /\ \A k \in 1..numThreads : applyCalls[k] = 0

\* a Caesar run on the empty input that has finished
C6_Witness ==
  CaesarRun /\ pc = "done" /\ exitCode = 0 /\ inputText = << >> /\ Len(futures) = 4

WorkersActive == \E k \in DOMAIN futures : futures[k].state = "running"

\* C7: while a task runs, what the tasks capture by reference (inputText,
\* the cipher, the settings) is written by no step; outputText is written
\* only by main, in the collecting loop once the result it appends has been
\* retrieved (or by the single call of the other ciphers, with no task).
C7_NoConflictingAccess ==
  [][ /\ WorkersActive =>
           (inputText' = inputText /\ cipher' = cipher /\ settings' = settings)
      /\ outputText' # outputText =>
           \/ /\ pc = "get"
              /\ futures[elem].state = "ready"
              /\ outputText' = outputText \o futures[elem].result
              /\ futures' = futures
           \/ pc = "apply" /\ futures = << >>
    ]_vars

\* main has appended a result while another task is still running
C7_Witness == WorkersActive /\ outputText # << >> /\ pc = "wait"

\* C8: for every input length and every task, the start offset handed to
\* substr is at most the length of the input, so no task fails with
\* out_of_range and every task that completes yields a result string.
C8_NoOutOfRange ==
  /\ \A k \in DOMAIN futures :
       /\ futures[k].first <= Len(inputText)
       /\ futures[k].state # "exception"
       /\ futures[k].state = "ready" => applyCalls[k] = 1
  /\ pc # "terminated"

\* all tasks completed on an input longer than 4 and not a multiple of 4
C8_Witness ==
  /\ Len(futures) = 4 /\ \A k \in 1..4 : futures[k].state = "ready"
  /\ Len(inputText) > 4 /\ Len(inputText) % 4 # 0

\* C9: with no output file, standard output of a successful run is exactly
\* the transformed text followed by one newline.
C9_StdoutIsOutputOnly ==
  (Dispatched /\ pc = "done" /\ exitCode = 0 /\ settings.outputFile = "") =>
    stdout = outputText \o << "\n" >>

\* C10: every Caesar run leaves the collecting loop and reaches the output
\* step.
C10_CollectionTerminates == (pc = "wait") ~> (pc = "output")

====
